---- MODULE Spec2Model ----
(***************************************************************************)
(* PECO-Buddy, script.py: extraction of colour-highlighted PECO phrases    *)
(* from the tables of a Word document, lookup of each phrase in the OLS    *)
(* ontology search service, and ranking of matches by ancestor count.      *)
(*                                                                         *)
(* Text is a sequence of tokens (a word, a letter, or a whitespace token), *)
(* so that strip(), the substring test `in` and string concatenation are   *)
(* computed, not assumed.                                                  *)
(***************************************************************************)
EXTENDS Integers, Sequences, FiniteSets, TLC

VARIABLES
    pc,                 \* position of the running code
    \* inner loop over the runs of a PECO cell (script.py 187-202)
    runs_seen,          \* the runs iterated so far, in order
    color_text_map,     \* local color_text_map, a dict in insertion order
    statement,          \* local statement
    \* extract_peco_highlights_from_tables (script.py 145-210)
    doc,                \* the tables iterated so far, the last one being scanned
    tables_data,        \* list of table_dict records
    table_dict,         \* the dict of the table being scanned
    row,                \* <<row>> while the row's PECO check is pending, else <<>>
    \* module-level enrichment loop (script.py 218-260)
    ai,                 \* number of annotations taken from `annotations`
    todo,               \* the (peco_element, text) pairs still to look up
    annotation_d,       \* the output record under construction
    parsed_output,      \* list of finished output records
    written,            \* what has been dumped to data/parsed_output.json
    searches,           \* how the search request of each looked-up phrase ended
    \* retrieve_ontology_matches (script.py 7-56)
    term, numresults, ontology,
    requests,           \* the GET requests issued
    response,           \* <<response>> once the service has answered
    returned,           \* <<value>> once the function has returned
    \* rank_ontology_matches_by_distance (script.py 106-134)
    ontology_matches,       \* the argument list (its dicts are updated in place)
    fetched,                \* what get_term_ancestors returned, per concept
    matches_with_metadata,  \* the list being built
    ranked                  \* <<list>> once the function has returned

runVars      == <<runs_seen, color_text_map, statement>>
extractVars  == <<doc, tables_data, table_dict, row>>
enrichVars   == <<ai, todo, annotation_d, parsed_output, written, searches>>
retrieveVars == <<term, numresults, ontology, requests, response, returned>>
rankVars     == <<ontology_matches, fetched, matches_with_metadata, ranked>>
vars == <<pc, runVars, extractVars, enrichVars, retrieveVars, rankVars>>

----------------------------------------------------------------------------
(* Bounds of the model *)

MaxRuns == 3        \* runs in one PECO cell (inner-loop specification)
MaxTables == 2      \* tables in a document
MaxDocRows == 3     \* rows in a document, over all its tables
MaxDocs == 2        \* documents in one search response
MaxRows == 2        \* largest `rows` parameter asked of the search
MaxMatches == 3     \* concepts handed to the ranker
MaxAncestors == 2   \* ancestors the service reports for one concept

----------------------------------------------------------------------------
(* Text *)

Whitespace == {" ", "\n"}

RECURSIVE LStrip(_)
LStrip(s) ==
    IF s = <<>> THEN s
    ELSE IF Head(s) \in Whitespace THEN LStrip(Tail(s)) ELSE s

RECURSIVE RStrip(_)
RStrip(s) ==
    IF s = <<>> THEN s
    ELSE IF s[Len(s)] \in Whitespace THEN RStrip(SubSeq(s, 1, Len(s) - 1)) ELSE s

\* str.strip()
Strip(s) == RStrip(LStrip(s))

\* `sub in s` on strings
Contains(s, sub) ==
    \E i \in 1..(Len(s) - Len(sub) + 1) : SubSeq(s, i, i + Len(sub) - 1) = sub

RECURSIVE Concat(_)
Concat(ss) == IF ss = <<>> THEN <<>> ELSE Head(ss) \o Concat(Tail(ss))

----------------------------------------------------------------------------
(* Dicts: a dict with string keys is a function on its key set; a dict     *)
(* whose iteration order matters is a sequence of [key, val] entries in    *)
(* insertion order.                                                        *)

Put(d, k, v) == [x \in (DOMAIN d) \cup {k} |-> IF x = k THEN v ELSE d[x]]

EmptyDict == [x \in {} |-> <<>>]

Keys(m) == {m[i].key : i \in 1..Len(m)}

Lookup(m, k) == m[CHOOSE i \in 1..Len(m) : m[i].key = k].val

\* if key not in m: m[key] = []  /  m[key].append(text)
AppendUnderKey(m, k, text) ==
    IF k \in Keys(m)
    THEN [i \in 1..Len(m) |->
            IF m[i].key = k THEN [key |-> k, val |-> Append(m[i].val, text)]
            ELSE m[i]]
    ELSE Append(m, [key |-> k, val |-> <<text>>])

----------------------------------------------------------------------------
(* Runs and their colour *)

\* A run: run.font.highlight_color (a WD_COLOR_INDEX member or None),
\* run.font.color.rgb (an RGBColor or None), run.text.
NoColor == [kind |-> "none", index |-> 0, rgb |-> ""]

get_highlight_color(run) ==
    IF run.hl_set /\ run.hl # 0             \* an int-valued member: AUTO (0) is falsy
    THEN [kind |-> "index", index |-> run.hl, rgb |-> ""]
    ELSE IF run.rgb_set
    THEN [kind |-> "rgb", index |-> 0, rgb |-> run.rgb]
    ELSE NoColor

\* str(color): "NAME (value)" for a highlight index, the hex digits for an RGBColor
ColorStr(color) ==
    IF color.kind = "rgb" THEN color.rgb
    ELSE CASE color.index = 3 -> "TURQUOISE (3)"
           [] color.index = 4 -> "BRIGHT_GREEN (4)"
           [] color.index = 5 -> "PINK (5)"
           [] color.index = 6 -> "RED (6)"
           [] color.index = 7 -> "YELLOW (7)"
           [] OTHER -> "AUTO (0)"

annotation_map ==
    [k \in {"PINK (5)", "BRIGHT_GREEN (4)", "TURQUOISE (3)", "YELLOW (7)"} |->
        CASE k = "PINK (5)" -> "Population"
          [] k = "BRIGHT_GREEN (4)" -> "Exposure"
          [] k = "TURQUOISE (3)" -> "Comparator"
          [] OTHER -> "Outcome"]

Categories == {"Population", "Exposure", "Comparator", "Outcome"}

\* The body of `for run in para.runs` (script.py 192-202) on the two locals.
RunStepRawStatement(acc, run) ==
    LET color == get_highlight_color(run)
        text == Strip(run.text)
        key == ColorStr(color)
    IN [map |-> IF color.kind # "none" /\ text # <<>> /\ key \in DOMAIN annotation_map
                THEN AppendUnderKey(acc.map, annotation_map[key], text)
                ELSE acc.map,
        statement |-> acc.statement \o run.text \o <<" ">>]

RunStepCategorisesAll(acc, run) ==
    LET color == get_highlight_color(run)
        text == Strip(run.text)
    IN [map |-> IF color.kind # "none" /\ text # <<>>
                THEN AppendUnderKey(acc.map,
                        IF ColorStr(color) \in DOMAIN annotation_map
                        THEN annotation_map[ColorStr(color)] ELSE "Outcome", text)
                ELSE acc.map,
        statement |-> acc.statement \o text \o <<" ">>]

RunStep(acc, run) ==
    LET color == get_highlight_color(run)
        text == Strip(run.text)
        color_key == ColorStr(color)
    IN [map |-> IF color.kind # "none" /\ text # <<>> /\ color_key \in DOMAIN annotation_map
                THEN AppendUnderKey(acc.map, annotation_map[color_key], text)
                ELSE acc.map,
        statement |-> acc.statement \o text \o <<" ">>]

----------------------------------------------------------------------------
(* Rows of a table: row.cells[0].text and the paragraphs of row.cells[-1]  *)

RECURSIVE Words(_)
\* the text of the given words, one space between two words
Words(ws) ==
    IF Len(ws) <= 1 THEN ws ELSE <<Head(ws), " ">> \o Words(Tail(ws))

TitleLabel     == Words(<<"Title", "of", "manuscript">>)
AuthorLabel    == Words(<<"Last", "name", "of", "first", "author">>)
YearLabel      == Words(<<"Year", "of", "publication">>)
UrlLabel       == Words(<<"URL", "of", "HTML", "manuscript">>)
SectionLabel   == Words(<<"Section", "PECO", "statement", "is", "in">>)
CommentsLabel  == Words(<<"Annotator", "comments">>)
PecoLabel      == Words(<<"PECO", "statement">>)

\* the six `if "<label>" in row.cells[0].text.strip()` routes, in code order
MetadataRoutes ==
    << [label |-> TitleLabel,    key |-> "doc_title"],
       [label |-> AuthorLabel,   key |-> "doc_lastauthorname"],
       [label |-> YearLabel,     key |-> "doc_year"],
       [label |-> UrlLabel,      key |-> "doc_url"],
       [label |-> SectionLabel,  key |-> "doc_peco_section"],
       [label |-> CommentsLabel, key |-> "doc_annotator_comments"] >>

\* paragraph.text: the texts of its runs; cell.text: its paragraphs joined by "\n"
ParagraphText(para) == Concat([i \in 1..Len(para) |-> para[i].text])

RECURSIVE CellText(_)
CellText(cell) ==
    IF cell = <<>> THEN <<>>
    ELSE IF Len(cell) = 1 THEN ParagraphText(cell[1])
    ELSE ParagraphText(Head(cell)) \o <<"\n">> \o CellText(Tail(cell))

RECURSIVE RouteFrom(_, _, _)
RouteFrom(d, r, i) ==
    IF i > Len(MetadataRoutes) THEN d
    ELSE RouteFrom(IF Contains(Strip(r.first), MetadataRoutes[i].label)
                   THEN Put(d, MetadataRoutes[i].key, Strip(CellText(r.last)))
                   ELSE d,
                   r, i + 1)

\* script.py 161-182 on table_dict
RouteMetadata(d, r) == RouteFrom(d, r, 1)

\* script.py 185
IsPecoRow(r) == Contains(Strip(r.first), PecoLabel)

RECURSIVE FoldRuns(_, _)
FoldRuns(acc, rs) ==
    IF rs = <<>> THEN acc ELSE FoldRuns(RunStep(acc, Head(rs)), Tail(rs))

\* script.py 186-202: both locals after the loops over the cell's paragraphs and runs
PecoCell(cell) == FoldRuns([map |-> <<>>, statement |-> <<>>], Concat(cell))

PecoPathAccumulates(d, r) ==
    LET start == [map |-> IF "peco_elements" \in DOMAIN d THEN d["peco_elements"] ELSE <<>>,
                  statement |-> IF "peco_statement" \in DOMAIN d
                                THEN d["peco_statement"] ELSE <<>>]
        acc == FoldRuns(start, Concat(r.last))
    IN Put(Put(d, "peco_elements", acc.map), "peco_statement", acc.statement)

\* script.py 186-205 on table_dict
PecoPath(d, r) ==
    LET acc == PecoCell(r.last)
    IN Put(Put(d, "peco_elements", acc.map), "peco_statement", acc.statement)

\* script.py 207-208
AppendIfAny(data, d) == IF DOMAIN d # {} THEN Append(data, d) ELSE data

----------------------------------------------------------------------------
(* retrieve_ontology_matches *)

Fields == {"label", "iri", "description", "ontology_name", "short_form"}

\* the default of term_info.get(field, default), script.py 45-49
Sentinel(f) ==
    CASE f = "label" -> "No Label"
      [] f = "iri" -> "No IRI"
      [] f = "description" -> "No Description"
      [] f = "ontology_name" -> "No Ontology Name"
      [] OTHER -> "No Short Form"

ConceptNoDefaults(term_info) ==
    [f \in Fields |-> IF f \in DOMAIN term_info THEN term_info[f] ELSE "null"]

\* script.py 44-50: the concept built from one document of the response
Concept(term_info) ==
    [f \in Fields |-> IF f \in DOMAIN term_info THEN term_info[f] ELSE Sentinel(f)]

\* results.get('response', {}).get('docs', []), script.py 42
DocsOf(body) == IF body.response_set /\ body.docs_set THEN body.docs ELSE <<>>

\* script.py 41-51: one concept per document, in the documents' order
Matches(body) == [i \in 1..Len(DocsOf(body)) |-> Concept(DocsOf(body)[i])]

\* What the call evaluates to, given how the GET request ended (script.py
\* 28-56): the pair (jsonresults, ontology_matches), or None when requests.get
\* or raise_for_status raised and the except clause only printed.
ReturnNone == [none |-> TRUE, jsonresults |-> <<>>, ontology_matches |-> <<>>]

RetrieveResult(resp) ==
    IF resp.kind = "ok"
    THEN [none |-> FALSE, jsonresults |-> <<resp.body>>, ontology_matches |-> Matches(resp.body)]
    ELSE ReturnNone

\* script.py 21-26: the query parameters; ontology is <<>> for None
Params(t, n, o) ==
    IF o # <<>> THEN [q |-> t, rows |-> n, ontology |-> o[1]] ELSE [q |-> t, rows |-> n]

----------------------------------------------------------------------------
(* rank_ontology_matches_by_distance *)

\* What get_term_ancestors returns (script.py 85-104): the list of ancestor
\* terms, or, after a failed request, the exception object itself.
get_term_ancestors(resp) ==
    IF resp.kind = "ok"
    THEN [exception |-> FALSE,
          terms |-> IF resp.embedded_set /\ resp.terms_set THEN resp.terms ELSE <<>>]
    ELSE [exception |-> TRUE, terms |-> <<>>]

\* script.py 122-123
WithAncestors(match, ancestors) ==
    [f \in (DOMAIN match) \cup {"ancestors", "distance_from_root"} |->
        IF f = "ancestors" THEN ancestors
        ELSE IF f = "distance_from_root" THEN Len(ancestors)
        ELSE match[f]]

RECURSIVE InsertBefore(_, _)
\* in front of the first element that is not nearer to the root
InsertBefore(sorted, x) ==
    IF sorted = <<>> THEN <<x>>
    ELSE IF sorted[1]["distance_from_root"] >= x["distance_from_root"]
         THEN <<x>> \o sorted
         ELSE <<sorted[1]>> \o InsertBefore(Tail(sorted), x)

RECURSIVE InsertAfter(_, _)
\* behind every element that is not farther from the root: equal keys keep their order
InsertAfter(sorted, x) ==
    IF sorted = <<>> THEN <<x>>
    ELSE IF sorted[1]["distance_from_root"] > x["distance_from_root"]
         THEN <<x>> \o sorted
         ELSE <<sorted[1]>> \o InsertAfter(Tail(sorted), x)

RECURSIVE SortFrom(_, _)
SortFrom(sorted, rest) ==
    IF rest = <<>> THEN sorted ELSE SortFrom(InsertAfter(sorted, Head(rest)), Tail(rest))

RECURSIVE SortUnstableFrom(_, _)
SortUnstableFrom(sorted, rest) ==
    IF rest = <<>> THEN sorted
    ELSE SortUnstableFrom(InsertBefore(sorted, Head(rest)), Tail(rest))

SortByDistanceUnstable(ms) == SortUnstableFrom(<<>>, ms)

\* list.sort(key=lambda x: x['distance_from_root']), script.py 132: ascending, stable
SortByDistance(ms) == SortFrom(<<>>, ms)

----------------------------------------------------------------------------
(* Values of the variables a specification does not use *)

RunIdle      == runs_seen = <<>> /\ color_text_map = <<>> /\ statement = <<>>
ExtractIdle  == doc = <<>> /\ tables_data = <<>> /\ table_dict = EmptyDict /\ row = <<>>
EnrichIdle   == /\ ai = 0 /\ todo = <<>> /\ annotation_d = <<>> /\ parsed_output = <<>>
                /\ written = <<>> /\ searches = <<>>
RetrieveIdle == /\ term = "" /\ numresults = 0 /\ ontology = <<>> /\ requests = <<>>
                /\ response = <<>> /\ returned = <<>>
RankIdle     == /\ ontology_matches = <<>> /\ fetched = <<>>
                /\ matches_with_metadata = <<>> /\ ranked = <<>>

----------------------------------------------------------------------------
(* The inner loop of the PECO path, run by run (script.py 187-202).  The    *)
(* loops over paragraphs and over a paragraph's runs visit the cell's runs *)
(* in paragraph-then-run order; here the runs arrive in that order.        *)

RunFonts ==
    {[hl_set |-> FALSE, hl |-> 0, rgb_set |-> FALSE, rgb |-> ""],
     [hl_set |-> TRUE,  hl |-> 3, rgb_set |-> FALSE, rgb |-> ""],
     [hl_set |-> TRUE,  hl |-> 4, rgb_set |-> FALSE, rgb |-> ""],
     [hl_set |-> TRUE,  hl |-> 5, rgb_set |-> FALSE, rgb |-> ""],
     [hl_set |-> TRUE,  hl |-> 6, rgb_set |-> FALSE, rgb |-> ""],
     [hl_set |-> TRUE,  hl |-> 7, rgb_set |-> FALSE, rgb |-> ""],
     [hl_set |-> TRUE,  hl |-> 0, rgb_set |-> TRUE,  rgb |-> "FF0000"],
     [hl_set |-> FALSE, hl |-> 0, rgb_set |-> TRUE,  rgb |-> "FF0000"],
     [hl_set |-> TRUE,  hl |-> 5, rgb_set |-> TRUE,  rgb |-> "FF0000"]}

RunTexts == {<<"a">>, <<" ", "b">>, <<" ">>}

MkRun(font, text) ==
    [hl_set |-> font.hl_set, hl |-> font.hl, rgb_set |-> font.rgb_set,
     rgb |-> font.rgb, text |-> text]

RunInputs == {MkRun(f, t) : f \in RunFonts, t \in RunTexts}

InitRuns ==
    /\ pc = "runs"
    /\ RunIdle /\ ExtractIdle /\ EnrichIdle /\ RetrieveIdle /\ RankIdle

ProcessRun ==
    /\ pc = "runs"
    /\ Len(runs_seen) < MaxRuns
    /\ \E run \in RunInputs :
         LET acc == RunStep([map |-> color_text_map, statement |-> statement], run)
         IN /\ color_text_map' = acc.map
            /\ statement' = acc.statement
            /\ runs_seen' = Append(runs_seen, run)
    /\ UNCHANGED <<pc, extractVars, enrichVars, retrieveVars, rankVars>>

NextRuns == ProcessRun

SpecRuns == InitRuns /\ [][NextRuns]_vars

----------------------------------------------------------------------------
(* What the claims say of a run, stated on the run's own fields *)

\* the category of a run's colour key, or "" when the key is not recognised
\* or the run has no colour
CategoryOfRun(run) ==
    IF ~run.hl_set \/ run.hl = 0 THEN ""
    ELSE CASE run.hl = 5 -> "Population"
           [] run.hl = 4 -> "Exposure"
           [] run.hl = 3 -> "Comparator"
           [] run.hl = 7 -> "Outcome"
           [] OTHER -> ""

Trimmed(run) == Strip(run.text)

\* the trimmed texts of the runs of category c with non-empty trimmed text, in order
PhrasesOfRuns(rs, c) ==
    LET keep(r) == CategoryOfRun(r) = c /\ Trimmed(r) # <<>>
        kept == SelectSeq(rs, keep)
    IN [i \in 1..Len(kept) |-> Trimmed(kept[i])]

PhrasesIn(m, c) == IF c \in Keys(m) THEN Lookup(m, c) ELSE <<>>

\* C9 as amended: the raw statement is the concatenation, in run order, of every
\* run's TRIMMED text followed by one space, whatever the run's classification;
\* and a run of unrecognised colour or of no colour adds no phrase to any
\* category (each category's list holds exactly the recognised runs' phrases).
C9_StatementConcatenatesTrimmedRuns ==
    pc = "runs" =>
      /\ statement = Concat([i \in 1..Len(runs_seen) |-> Trimmed(runs_seen[i]) \o <<" ">>])
      /\ Keys(color_text_map) \subseteq Categories
      /\ \A c \in Categories :
           PhrasesIn(color_text_map, c) = PhrasesOfRuns(runs_seen, c)

\* C9 as stated: every run's text, untrimmed, each followed by one space
C9_StatementConcatenatesRawRuns ==
    pc = "runs" =>
      statement = Concat([i \in 1..Len(runs_seen) |-> runs_seen[i].text \o <<" ">>])

\* a recognised run, an unrecognised-colour run and a colourless run, one of them
\* with surrounding whitespace, have all been processed
C9_Witness ==
    /\ pc = "runs"
    /\ \E i, j, k \in 1..Len(runs_seen) :
         /\ CategoryOfRun(runs_seen[i]) # "" /\ Trimmed(runs_seen[i]) # <<>>
         /\ runs_seen[j].hl_set /\ runs_seen[j].hl = 6 /\ Trimmed(runs_seen[j]) # <<>>
         /\ ~runs_seen[k].hl_set /\ ~runs_seen[k].rgb_set
         /\ runs_seen[k].text # Trimmed(runs_seen[k])
    /\ statement # <<>>

----------------------------------------------------------------------------
(* extract_peco_highlights_from_tables, table by table and row by row      *)

Run(hl, text) ==
    [hl_set |-> hl # 0, hl |-> hl, rgb_set |-> FALSE, rgb |-> "", text |-> text]

\* last cells: highlighted and plain runs in one paragraph; two paragraphs with
\* a repeated phrase, an unrecognised colour and a blank highlighted run
CellInputs ==
    { << <<Run(5, <<"a">>), Run(0, <<" ", "b">>), Run(3, <<"f">>)>> >>,
      << <<Run(7, <<"c", " ">>), Run(5, <<"a">>)>>,
         <<Run(6, <<"d">>), Run(4, <<" ">>), Run(5, <<"a">>), Run(5, <<"e">>)>> >> }

FirstCellInputs ==
    {TitleLabel, PecoLabel, SectionLabel, Words(<<"peco", "statement">>)}

RowInputs == {[first |-> f, last |-> c] : f \in FirstCellInputs, c \in CellInputs}

RowsIn(d) == Concat(d)

InitExtract ==
    /\ pc = "tables"
    /\ RunIdle /\ ExtractIdle /\ EnrichIdle /\ RetrieveIdle /\ RankIdle

\* script.py 157-158: the next table, with a fresh table_dict
StartTable ==
    /\ pc = "tables"
    /\ Len(doc) < MaxTables
    /\ doc' = Append(doc, <<>>)
    /\ table_dict' = EmptyDict
    /\ pc' = "rows"
    /\ UNCHANGED <<tables_data, row, runVars, enrichVars, retrieveVars, rankVars>>

\* script.py 159-182: the next row of the table, routed to the metadata fields
ScanRow ==
    /\ pc = "rows"
    /\ Len(RowsIn(doc)) < MaxDocRows
    /\ \E r \in RowInputs :
         /\ doc' = [doc EXCEPT ![Len(doc)] = Append(@, r)]
         /\ table_dict' = RouteMetadata(table_dict, r)
         /\ IF IsPecoRow(r)
            THEN row' = <<r>> /\ pc' = "peco"
            ELSE row' = <<>> /\ pc' = "rows"
    /\ UNCHANGED <<tables_data, runVars, enrichVars, retrieveVars, rankVars>>

\* script.py 185-205: the row's last cell read as a PECO statement
ScanPecoStatement ==
    /\ pc = "peco"
    /\ table_dict' = PecoPath(table_dict, row[1])
    /\ row' = <<>>
    /\ pc' = "rows"
    /\ UNCHANGED <<doc, tables_data, runVars, enrichVars, retrieveVars, rankVars>>

\* script.py 207-208: the table's rows are exhausted
EndTable ==
    /\ pc = "rows"
    /\ tables_data' = AppendIfAny(tables_data, table_dict)
    /\ pc' = "tables"
    /\ UNCHANGED <<doc, table_dict, row, runVars, enrichVars, retrieveVars, rankVars>>

\* script.py 210: the document's tables are exhausted
ReturnTables ==
    /\ pc = "tables"
    /\ pc' = "extracted"
    /\ UNCHANGED <<extractVars, runVars, enrichVars, retrieveVars, rankVars>>

NextExtract == StartTable \/ ScanRow \/ ScanPecoStatement \/ EndTable \/ ReturnTables

SpecExtract == InitExtract /\ [][NextExtract]_vars

----------------------------------------------------------------------------
(* Claims on the extraction *)

\* the first cell's text contains the case-sensitive substring "PECO statement"
HasPecoLabel(r) == Contains(r.first, PecoLabel)

HasPecoRow(t) == \E j \in 1..Len(t) : HasPecoLabel(t[j])

PecoRowsOf(t) == SelectSeq(t, HasPecoLabel)

LastPecoRow(t) == PecoRowsOf(t)[Len(PecoRowsOf(t))]

\* the runs of a row's last cell in paragraph-then-run order
RunsOfRow(r) == Concat(r.last)

\* the runs of every PECO-statement row of the table, in document order
RunsOfPecoRows(t) == Concat([j \in 1..Len(PecoRowsOf(t)) |-> RunsOfRow(PecoRowsOf(t)[j])])

\* a row one of the seven labels matches
Recognised(r) ==
    \/ HasPecoLabel(r)
    \/ \E i \in 1..Len(MetadataRoutes) : Contains(r.first, MetadataRoutes[i].label)

\* the tables that hold a recognised row, by index, in table order: the record
\* of the k-th of them, when the tables are exhausted, is tables_data[k]
RecordedTables ==
    LET holds(i) == \E j \in 1..Len(doc[i]) : Recognised(doc[i][j])
    IN SelectSeq([i \in 1..Len(doc) |-> i], holds)

TablesDone == pc \in {"tables", "extracted"}

\* C1 as stated: the number of records equals the number of tables that contain
\* a row whose first cell contains "PECO statement"; a table with metadata rows
\* only yields no record.
C1_OneRecordPerPecoTable ==
    pc = "extracted" =>
      Len(tables_data) = Cardinality({i \in 1..Len(doc) : HasPecoRow(doc[i])})

\* C2 as amended: for every table with a PECO-statement row, each category's
\* phrase list in the table's record is exactly the trimmed texts, in document
\* order and with duplicates, of the runs of the table's LAST PECO-statement row
\* that have that category's colour key and a non-empty trimmed text.
C2_PhrasesOfLastPecoRowInOrder ==
    TablesDone =>
      /\ Len(tables_data) = Len(RecordedTables)
      /\ \A k \in 1..Len(RecordedTables) :
           LET t == doc[RecordedTables[k]]
           IN HasPecoRow(t) =>
                /\ "peco_elements" \in DOMAIN tables_data[k]
                /\ \A c \in Categories :
                     PhrasesIn(tables_data[k]["peco_elements"], c)
                       = PhrasesOfRuns(RunsOfRow(LastPecoRow(t)), c)

\* C2 as stated: the same of the runs of every PECO-statement row of the table
C2_PhrasesOfEveryPecoRowInOrder ==
    TablesDone =>
      /\ Len(tables_data) = Len(RecordedTables)
      /\ \A k \in 1..Len(RecordedTables) :
           LET t == doc[RecordedTables[k]]
           IN HasPecoRow(t) =>
                /\ "peco_elements" \in DOMAIN tables_data[k]
                /\ \A c \in Categories :
                     PhrasesIn(tables_data[k]["peco_elements"], c)
                       = PhrasesOfRuns(RunsOfPecoRows(t), c)

\* a finished table whose last PECO row holds a repeated phrase and phrases of
\* two categories, after an earlier PECO row with phrases of its own
C2_Witness ==
    /\ pc = "extracted"
    /\ \E k \in 1..Len(RecordedTables) :
         LET t == doc[RecordedTables[k]]
         IN /\ Len(PecoRowsOf(t)) >= 2
            /\ PhrasesOfRuns(RunsOfRow(PecoRowsOf(t)[1]), "Comparator") # <<>>
            /\ Len(PhrasesIn(tables_data[k]["peco_elements"], "Population")) >= 3
            /\ PhrasesIn(tables_data[k]["peco_elements"], "Outcome") # <<>>

MetadataKeys == {MetadataRoutes[i].key : i \in 1..Len(MetadataRoutes)}

C10_LastRowAlone ==
    TablesDone =>
      /\ Len(tables_data) = Len(RecordedTables)
      /\ \A k \in 1..Len(RecordedTables) :
           LET t == doc[RecordedTables[k]]
           IN HasPecoRow(t) =>
                /\ {"peco_elements", "peco_statement"} \subseteq DOMAIN tables_data[k]
                /\ tables_data[k]["peco_elements"] = PecoCell(LastPecoRow(t).last).map
                /\ tables_data[k]["peco_statement"] = PecoCell(LastPecoRow(t).last).statement

C10_MetadataKept ==
    pc = "peco" =>
      /\ (DOMAIN table_dict') \cap MetadataKeys = (DOMAIN table_dict) \cap MetadataKeys
      /\ \A key \in (DOMAIN table_dict) \cap MetadataKeys : table_dict'[key] = table_dict[key]

\* C10: a table with several PECO-statement rows yields exactly one record, whose
\* peco_elements and peco_statement are those computed from the last such row
\* alone, and reading a PECO statement leaves every metadata field as it was.
C10_LastPecoRowWins == [](C10_LastRowAlone) /\ [][C10_MetadataKept]_vars

\* a finished table with a title and two PECO rows of different content, the
\* first of them with phrases
C10_Witness ==
    /\ pc = "extracted"
    /\ \E k \in 1..Len(RecordedTables) :
         LET t == doc[RecordedTables[k]]
         IN /\ Len(PecoRowsOf(t)) >= 2
            /\ PecoCell(PecoRowsOf(t)[1].last).map # <<>>
            /\ PecoCell(PecoRowsOf(t)[1].last) # PecoCell(LastPecoRow(t).last)
            /\ "doc_title" \in DOMAIN tables_data[k]
            /\ tables_data[k]["doc_title"] # <<>>

----------------------------------------------------------------------------
(* retrieve_ontology_matches, one call *)

FullDoc ==
    [f \in Fields |->
        CASE f = "label" -> "diabetes mellitus"
          [] f = "iri" -> "http://purl.obolibrary.org/obo/MONDO_0005015"
          [] f = "description" -> "a metabolic disease"
          [] f = "ontology_name" -> "mondo"
          [] OTHER -> "MONDO_0005015"]

OtherDoc ==
    [f \in Fields |->
        CASE f = "label" -> "diabetes insipidus"
          [] f = "iri" -> "http://www.ebi.ac.uk/efo/EFO_0004260"
          [] f = "description" -> "null"
          [] f = "ontology_name" -> "efo"
          [] OTHER -> "EFO_0004260"]

\* documents of a response: any subset of the five fields present, and a
\* second document whose description is a JSON null
RawDocInputs == {[f \in S |-> FullDoc[f]] : S \in SUBSET Fields} \cup {OtherDoc}

RECURSIVE SeqsUpTo(_, _)
SeqsUpTo(S, n) ==
    IF n = 0 THEN {<<>>}
    ELSE LET shorter == SeqsUpTo(S, n - 1)
         IN shorter \cup {Append(q, x) : q \in shorter, x \in S}

OkBody(docs) == [kind |-> "ok", body |-> [response_set |-> TRUE, docs_set |-> TRUE, docs |-> docs]]

SearchResponses(docSeqs) ==
    {[kind |-> "connection_error"], [kind |-> "http_error"],
     [kind |-> "ok", body |-> [response_set |-> FALSE, docs_set |-> FALSE, docs |-> <<>>]],
     [kind |-> "ok", body |-> [response_set |-> TRUE, docs_set |-> FALSE, docs |-> <<>>]]}
    \cup {OkBody(ds) : ds \in docSeqs}

InitRetrieve ==
    /\ pc = "call"
    /\ term = "diabetes"
    /\ numresults \in 0..MaxRows
    /\ ontology \in {<<>>, <<"efo">>}
    /\ requests = <<>> /\ response = <<>> /\ returned = <<>>
    /\ RunIdle /\ ExtractIdle /\ EnrichIdle /\ RankIdle

\* script.py 7-56: the GET request, its outcome, and the value returned
RetrieveOntologyMatches ==
    /\ pc = "call"
    /\ \E resp \in SearchResponses(SeqsUpTo(RawDocInputs, MaxDocs)) :
         /\ requests' = Append(requests, Params(term, numresults, ontology))
         /\ response' = <<resp>>
         /\ returned' = <<RetrieveResult(resp)>>
    /\ pc' = "returned"
    /\ UNCHANGED <<term, numresults, ontology, runVars, extractVars, enrichVars, rankVars>>

NextRetrieve == RetrieveOntologyMatches

SpecRetrieve == InitRetrieve /\ [][NextRetrieve]_vars

Succeeded == pc = "returned" /\ response[1].kind = "ok"

C6_OneRequestFixedShape ==
    /\ Len(requests) = 1
    /\ requests[1] = Params(term, numresults, ontology)
    /\ ~returned[1].none
    /\ LET docs == IF response[1].body.response_set /\ response[1].body.docs_set
                   THEN response[1].body.docs ELSE <<>>
           out == returned[1].ontology_matches
       IN /\ Len(out) = Len(docs)
          /\ \A i \in 1..Len(docs) :
               /\ DOMAIN out[i] = Fields
               /\ \A f \in Fields :
                    out[i][f] = IF f \in DOMAIN docs[i] THEN docs[i][f] ELSE Sentinel(f)

\* C6 as amended: on a successful response the call has issued exactly one search
\* request and returns exactly one concept record per document of the response,
\* in the documents' order, each with exactly the five fields, a field missing
\* from the raw document holding its sentinel string. (The count is at most n
\* only when the service itself returns at most n documents.)
C6_OneConceptPerDocument == Succeeded => C6_OneRequestFixedShape

\* C6 as stated: the same, and at most n concept records are returned
C6_AtMostRequestedCount ==
    Succeeded =>
      /\ C6_OneRequestFixedShape
      /\ Len(returned[1].ontology_matches) <= numresults

\* a successful call for two documents, the first without description and label
C6_Witness ==
    /\ Succeeded
    /\ numresults = 2
    /\ Len(returned[1].ontology_matches) = 2
    /\ "description" \notin DOMAIN response[1].body.docs[1]
    /\ returned[1].ontology_matches[1]["description"] = "No Description"
    /\ returned[1].ontology_matches[1] # returned[1].ontology_matches[2]

----------------------------------------------------------------------------
(* rank_ontology_matches_by_distance, one call *)

ConceptInputs == {Concept(FullDoc), Concept(OtherDoc)}

AncestorTerms == <<"thing", "disease", "metabolic disease", "glucose metabolism disease">>

AncestorResponses ==
    {[kind |-> "http_error", embedded_set |-> FALSE, terms_set |-> FALSE, terms |-> <<>>],
     [kind |-> "ok", embedded_set |-> FALSE, terms_set |-> FALSE, terms |-> <<>>]}
    \cup {[kind |-> "ok", embedded_set |-> TRUE, terms_set |-> TRUE,
           terms |-> SubSeq(AncestorTerms, 1, n)] : n \in 0..MaxAncestors}

InitRank ==
    /\ pc = "rank"
    /\ ontology_matches \in SeqsUpTo(ConceptInputs, MaxMatches)
    /\ fetched = <<>> /\ matches_with_metadata = <<>> /\ ranked = <<>>
    /\ RunIdle /\ ExtractIdle /\ EnrichIdle /\ RetrieveIdle

\* script.py 113-129: one pass of the loop.  len() of the exception object that
\* get_term_ancestors returns after a failed request raises TypeError.
FetchAncestors ==
    /\ pc = "rank"
    /\ Len(fetched) < Len(ontology_matches)
    /\ \E resp \in AncestorResponses :
         LET idx == Len(fetched) + 1
             ancestors == get_term_ancestors(resp)
             match == WithAncestors(ontology_matches[idx], ancestors.terms)
         IN /\ fetched' = Append(fetched, ancestors)
            /\ IF ancestors.exception
               THEN /\ pc' = "TypeError"
                    /\ UNCHANGED <<ontology_matches, matches_with_metadata>>
               ELSE /\ pc' = "rank"
                    /\ ontology_matches' = [ontology_matches EXCEPT ![idx] = match]
                    /\ matches_with_metadata' = Append(matches_with_metadata, match)
    /\ UNCHANGED <<ranked, runVars, extractVars, enrichVars, retrieveVars>>

\* script.py 131-134
SortAndReturn ==
    /\ pc = "rank"
    /\ Len(fetched) = Len(ontology_matches)
    /\ ranked' = <<SortByDistance(matches_with_metadata)>>
    /\ pc' = "ranked"
    /\ UNCHANGED <<ontology_matches, fetched, matches_with_metadata,
                   runVars, extractVars, enrichVars, retrieveVars>>

NextRank == FetchAncestors \/ SortAndReturn

SpecRank == InitRank /\ [][NextRank]_vars

\* C4 as stated: a failed ancestor fetch never aborts the ranking call; the
\* concept whose fetch failed gets an empty ancestor list and distance 0 and the
\* ranking goes on to the remaining concepts.
C4_FailedFetchCountsAsRoot ==
    /\ pc # "TypeError"
    /\ \A i \in 1..Len(fetched) :
         fetched[i].exception =>
           /\ Len(matches_with_metadata) >= i
           /\ matches_with_metadata[i]["ancestors"] = <<>>
           /\ matches_with_metadata[i]["distance_from_root"] = 0

\* C5: with every fetch succeeded, the returned list is a permutation of the
\* input in which each concept's distance_from_root is its ancestor count, the
\* distances are non-decreasing, and concepts of equal distance keep their
\* input order.
C5_StableAscendingPermutation ==
    pc = "ranked" =>
      LET out == ranked[1]
          n == Len(ontology_matches)
          dist(i) == Len(fetched[i].terms)
      IN /\ Len(out) = n
         /\ \E p \in Permutations(1..n) :
              /\ \A k \in 1..n :
                   /\ \A f \in Fields : out[k][f] = ontology_matches[p[k]][f]
                   /\ out[k]["ancestors"] = fetched[p[k]].terms
                   /\ out[k]["distance_from_root"] = dist(p[k])
              /\ \A k \in 1..(n - 1) :
                   \/ dist(p[k]) < dist(p[k + 1])
                   \/ dist(p[k]) = dist(p[k + 1]) /\ p[k] < p[k + 1]

\* A with more ancestors than B, then C of another concept tied with B: [B, C, A]
C5_Witness ==
    /\ pc = "ranked"
    /\ Len(ranked[1]) = 3
    /\ Len(fetched[1].terms) > Len(fetched[2].terms)
    /\ Len(fetched[2].terms) = Len(fetched[3].terms)
    /\ ontology_matches[2]["iri"] # ontology_matches[3]["iri"]
    /\ ranked[1][1]["iri"] = ontology_matches[2]["iri"]
    /\ ranked[1][3]["iri"] = ontology_matches[1]["iri"]

----------------------------------------------------------------------------
(* The script's top level: the enrichment loop over the extracted           *)
(* annotations and the final dump (script.py 212-260)                      *)

NUMRESULTS == 5

RECURSIVE ScanRows(_, _)
\* the table_dict of a table after its rows, as ScanRow and ScanPecoStatement build it
ScanRows(d, rows) ==
    IF rows = <<>> THEN d
    ELSE LET routed == RouteMetadata(d, Head(rows))
         IN ScanRows(IF IsPecoRow(Head(rows)) THEN PecoPath(routed, Head(rows)) ELSE routed,
                     Tail(rows))

RECURSIVE ExtractFrom(_, _)
\* tables_data after the given tables, as StartTable .. EndTable build it
ExtractFrom(data, tables) ==
    IF tables = <<>> THEN data
    ELSE ExtractFrom(AppendIfAny(data, ScanRows(EmptyDict, Head(tables))), Tail(tables))

PlainCell(text) == << <<Run(0, text)>> >>

MetadataRows ==
    << [first |-> TitleLabel,   last |-> PlainCell(<<"Study", " ", "X">>)],
       [first |-> AuthorLabel,  last |-> PlainCell(<<"Chan">>)],
       [first |-> YearLabel,    last |-> PlainCell(<<"2020">>)],
       [first |-> UrlLabel,     last |-> PlainCell(<<"http://example.org/x">>)] >>

SectionRow == [first |-> SectionLabel, last |-> PlainCell(<<"Abstract">>)]

\* tables of a document: every metadata row and the PECO statement last; the
\* same with the section row last; a PECO statement row alone; a title row alone
TableInputs ==
    {MetadataRows \o <<SectionRow, [first |-> PecoLabel, last |-> c]>> : c \in CellInputs}
    \cup {MetadataRows \o <<[first |-> PecoLabel, last |-> c], SectionRow>> : c \in CellInputs}
    \cup {<<[first |-> PecoLabel, last |-> c]>> : c \in CellInputs}
    \cup {<<MetadataRows[1]>>}

\* the keys the loop reads from an annotation, in the order it reads them
\* (script.py 226-234)
KeysRead ==
    <<"doc_title", "peco_elements", "doc_title", "doc_lastauthorname", "doc_year",
      "doc_url", "doc_peco_section", "peco_statement">>

HasKeysRead(annotation) == \A i \in 1..Len(KeysRead) : KeysRead[i] \in DOMAIN annotation

\* script.py 228-241
NewAnnotationD(annotation) ==
    [doc_title |-> annotation["doc_title"],
     doc_lastauthorname |-> annotation["doc_lastauthorname"],
     doc_year |-> annotation["doc_year"],
     url |-> annotation["doc_url"],
     doc_peco_section |-> annotation["doc_peco_section"],
     peco_statement |-> annotation["peco_statement"],
     peco_elements |-> [c \in Categories |-> <<>>]]

RECURSIVE PhrasePairs(_)
\* the (peco_element, text) pairs in the order the two for loops visit them
\* (script.py 242-243): the dict's insertion order, then the list's order
PhrasePairs(m) ==
    IF m = <<>> THEN <<>>
    ELSE [i \in 1..Len(Head(m).val) |-> [peco_element |-> Head(m).key, text |-> Head(m).val[i]]]
         \o PhrasePairs(Tail(m))

\* script.py 251-256
AddMatches(d, peco_element, text, matches) ==
    [d EXCEPT !.peco_elements[peco_element] = Append(@, [text |-> text, matches |-> matches])]

LoopResponses ==
    SearchResponses({<<>>, <<[f \in Fields \ {"description"} |-> FullDoc[f]]>>})

Init ==
    /\ pc = "loop"
    /\ \E d \in SeqsUpTo(TableInputs, MaxTables) :
         /\ doc = d
         /\ tables_data = ExtractFrom(<<>>, d)
    /\ table_dict = EmptyDict /\ row = <<>>
    /\ RunIdle /\ EnrichIdle /\ RetrieveIdle /\ RankIdle

\* script.py 225-241: the next annotation; reading a key the annotation lacks
\* raises KeyError
BeginAnnotation ==
    /\ pc = "loop"
    /\ ai < Len(tables_data)
    /\ ai' = ai + 1
    /\ LET annotation == tables_data[ai + 1]
       IN IF HasKeysRead(annotation)
          THEN /\ annotation_d' = NewAnnotationD(annotation)
               /\ todo' = PhrasePairs(annotation["peco_elements"])
               /\ pc' = "phrases"
          ELSE /\ pc' = "KeyError"
               /\ UNCHANGED <<annotation_d, todo>>
    /\ UNCHANGED <<parsed_output, written, searches, extractVars, runVars,
                   retrieveVars, rankVars>>

\* script.py 243-256: the next phrase; unpacking the None that
\* retrieve_ontology_matches returns after a failed request raises TypeError
LookupPhrase ==
    /\ pc = "phrases"
    /\ todo # <<>>
    /\ \E resp \in LoopResponses :
         LET result == RetrieveResult(resp)
         IN /\ searches' = Append(searches,
                 [annotation |-> ai, peco_element |-> Head(todo).peco_element,
                  text |-> Head(todo).text, rows |-> NUMRESULTS, response |-> resp])
            /\ IF result.none
               THEN /\ pc' = "TypeError"
                    /\ UNCHANGED <<annotation_d, todo>>
               ELSE /\ annotation_d' = AddMatches(annotation_d, Head(todo).peco_element,
                                                  Head(todo).text, result.ontology_matches)
                    /\ todo' = Tail(todo)
                    /\ pc' = "phrases"
    /\ UNCHANGED <<ai, parsed_output, written, extractVars, runVars, retrieveVars, rankVars>>

\* script.py 257
FinishAnnotation ==
    /\ pc = "phrases"
    /\ todo = <<>>
    /\ parsed_output' = Append(parsed_output, annotation_d)
    /\ pc' = "loop"
    /\ UNCHANGED <<ai, todo, annotation_d, written, searches, extractVars, runVars,
                   retrieveVars, rankVars>>

\* script.py 259-260
WriteOutput ==
    /\ pc = "loop"
    /\ ai = Len(tables_data)
    /\ written' = <<parsed_output>>
    /\ pc' = "done"
    /\ UNCHANGED <<ai, todo, annotation_d, parsed_output, searches, extractVars, runVars,
                   retrieveVars, rankVars>>

Next == BeginAnnotation \/ LookupPhrase \/ FinishAnnotation \/ WriteOutput

Spec == Init /\ [][Next]_vars

----------------------------------------------------------------------------
(* Claims on the enrichment loop *)

SearchFailed(s) == s.response.kind # "ok"

\* the source phrases of category c of an annotation
SourcePhrases(annotation, c) ==
    IF "peco_elements" \in DOMAIN annotation
    THEN PhrasesIn(annotation["peco_elements"], c) ELSE <<>>

\* one record per annotation, in order, each category holding one {text, matches}
\* entry per source phrase, in the source phrase order
OneEntryPerPhrase(out) ==
    /\ Len(out) = Len(tables_data)
    /\ \A k \in 1..Len(out) : \A c \in Categories :
         /\ Len(out[k].peco_elements[c]) = Len(SourcePhrases(tables_data[k], c))
         /\ \A i \in 1..Len(out[k].peco_elements[c]) :
              out[k].peco_elements[c][i].text = SourcePhrases(tables_data[k], c)[i]

\* C3 as stated: a failed search request yields no results for its phrase and
\* the loop continues; every phrase of every annotation still gets its entry
\* in the written output, the failed phrase's with no matches.
C3_FailedSearchIsIsolated ==
    (\E i \in 1..Len(searches) : SearchFailed(searches[i])) =>
      /\ pc \in {"loop", "phrases", "done", "KeyError"}
      /\ pc = "done" => OneEntryPerPhrase(written[1])

\* C7 as stated: with every service call succeeding, the loop produces one
\* output record per annotation, in order, whose four categories each hold one
\* {text, matches} entry per source phrase in the source order (none for a
\* category without phrases).
C7_OneRecordPerAnnotation ==
    (\A i \in 1..Len(searches) : ~SearchFailed(searches[i])) =>
      /\ pc \in {"loop", "phrases", "done"}
      /\ Len(parsed_output) = (IF pc = "phrases" THEN ai - 1 ELSE ai)
      /\ pc = "done" => OneEntryPerPhrase(written[1])

\* C8 as stated: no content of the document is fatal; whatever rows its tables
\* hold or lack, the loop ends and writes one record per extracted annotation.
C8_NoFatalDocument ==
    /\ pc # "KeyError"
    /\ pc = "done" => Len(written[1]) = Len(tables_data)

====
